---- MODULE Spec2Model ----
(***************************************************************************)
(* Model of webxr/openxr/input.rs: the per-frame input processing of one   *)
(* OpenXR input source (OpenXRInput): the click/squeeze state machines     *)
(* (ClickState::update), the palm-up "menu" gesture with its sustain       *)
(* counter, pose resolution (pose_for) and the assembled Frame.            *)
(*                                                                         *)
(* Dot products of unit vectors are modelled in hundredths (96 is 0.96).   *)
(* Every backend query (Action::state, Space::locate) is answered by the   *)
(* runtime; the answers are inputs drawn per query.                        *)
(***************************************************************************)
EXTENDS Integers, Sequences, FiniteSets, TLC

\* const MENU_GESTURE_SUSTAIN_THRESHOLD: u8 = 60
MENU_GESTURE_SUSTAIN_THRESHOLD == 60

\* menu_gesture_sustain is a u8
U8_MAX == 255

\* 0.95, the cosine both alignment tests compare against, in hundredths
ALIGNMENT_COSINE == 95

\* enum ClickState
ClickState == {"Clicking", "Done"}

\* Option<SelectEvent>, as update produces it
SelectEvent == {"None", "Start", "Select", "End"}

\* webxr_api::Handedness, the two values hand_str accepts
Handedness == {"Left", "Right"}

\* openxr::ActionState<bool>, the fields the code reads
ActionState == [is_active : BOOLEAN, current_state : BOOLEAN]

\* SpaceLocationFlags: the two validity bits pose_for tests
POSITION_VALID == "POSITION_VALID"
ORIENTATION_VALID == "ORIENTATION_VALID"
SpaceLocationFlags == SUBSET {POSITION_VALID, ORIENTATION_VALID}

\* the values fed as gaze.dot(R * (1,0,0)) and gaze.dot(input_relative):
\* clearly off, exactly on the threshold, just above it, and the mirrored ones
AxisDots == {-96, -95, 80, 95, 96}
LookDots == {80, 95, 96}

----------------------------------------------------------------------------
VARIABLES
    handedness,            \* OpenXRInput.handedness
    click_state,           \* OpenXRInput.click_state
    squeeze_state,         \* OpenXRInput.squeeze_state
    menu_gesture_sustain,  \* OpenXRInput.menu_gesture_sustain
    ret,                   \* the Frame the last call of frame returned
    ended,                 \* how the last call of frame ended, and the query that failed in it
    queried,               \* the answers the backend gave to the queries of the last frame call
    counted,               \* the value line 294 left in menu_gesture_sustain in the last frame call, 0 if it did not run
    call,                  \* the last call of ClickState::update made on its own: receiver, arguments, result
    since_start,           \* history: per button, Select/End events emitted since its last Start
    past,                  \* history: per button, what the calls of update made on their own were given so far
    run,                   \* history: consecutive qualifying ticks since the run began
    origin                 \* history: what preceded the current run of qualifying ticks

vars == <<handedness, click_state, squeeze_state, menu_gesture_sustain, ret,
          ended, queried, counted, call, since_start, past, run, origin>>

----------------------------------------------------------------------------
\* update with the release arm leaving *self at Clicking
update_select_keeps_phase(self, click, menu_selected) ==
    IF click.is_active
    THEN IF self = "Clicking" /\ menu_selected
         THEN [self |-> "Done", is_active |-> click.is_active, event |-> "End"]
         ELSE IF click.current_state /\ self = "Done"
         THEN [self |-> "Clicking", is_active |-> click.is_active, event |-> "Start"]
         ELSE IF ~click.current_state /\ self = "Clicking"
         THEN [self |-> "Clicking", is_active |-> click.is_active, event |-> "Select"]
         ELSE [self |-> self, is_active |-> click.is_active, event |-> "None"]
    ELSE IF self = "Clicking"
         THEN [self |-> "Done", is_active |-> click.is_active, event |-> "End"]
         ELSE [self |-> self, is_active |-> click.is_active, event |-> "None"]

\* update with the press arm matching (true, _) instead of (true, Done)
update_start_any_phase(self, click, menu_selected) ==
    IF click.is_active
    THEN IF self = "Clicking" /\ menu_selected
         THEN [self |-> "Done", is_active |-> click.is_active, event |-> "End"]
         ELSE IF click.current_state
         THEN [self |-> "Clicking", is_active |-> click.is_active, event |-> "Start"]
         ELSE IF ~click.current_state /\ self = "Clicking"
         THEN [self |-> "Done", is_active |-> click.is_active, event |-> "Select"]
         ELSE [self |-> self, is_active |-> click.is_active, event |-> "None"]
    ELSE IF self = "Clicking"
         THEN [self |-> "Done", is_active |-> click.is_active, event |-> "End"]
         ELSE [self |-> self, is_active |-> click.is_active, event |-> "None"]

\* update with the gesture arm placed after the press and release arms
update_menu_arm_last(self, click, menu_selected) ==
    IF click.is_active
    THEN IF click.current_state /\ self = "Done"
         THEN [self |-> "Clicking", is_active |-> click.is_active, event |-> "Start"]
         ELSE IF ~click.current_state /\ self = "Clicking"
         THEN [self |-> "Done", is_active |-> click.is_active, event |-> "Select"]
         ELSE IF self = "Clicking" /\ menu_selected
         THEN [self |-> "Done", is_active |-> click.is_active, event |-> "End"]
         ELSE [self |-> self, is_active |-> click.is_active, event |-> "None"]
    ELSE IF self = "Clicking"
         THEN [self |-> "Done", is_active |-> click.is_active, event |-> "End"]
         ELSE [self |-> self, is_active |-> click.is_active, event |-> "None"]

\* update without the lost-tracking branch of lines 59-62
update_ignores_tracking_loss(self, click, menu_selected) ==
    IF click.is_active
    THEN IF self = "Clicking" /\ menu_selected
         THEN [self |-> "Done", is_active |-> click.is_active, event |-> "End"]
         ELSE IF click.current_state /\ self = "Done"
         THEN [self |-> "Clicking", is_active |-> click.is_active, event |-> "Start"]
         ELSE IF ~click.current_state /\ self = "Clicking"
         THEN [self |-> "Done", is_active |-> click.is_active, event |-> "Select"]
         ELSE [self |-> self, is_active |-> click.is_active, event |-> "None"]
    ELSE [self |-> self, is_active |-> click.is_active, event |-> "None"]

\* update with the gesture arm leaving *self at Clicking
update_menu_keeps_phase(self, click, menu_selected) ==
    IF click.is_active
    THEN IF self = "Clicking" /\ menu_selected
         THEN [self |-> "Clicking", is_active |-> click.is_active, event |-> "End"]
         ELSE IF click.current_state /\ self = "Done"
         THEN [self |-> "Clicking", is_active |-> click.is_active, event |-> "Start"]
         ELSE IF ~click.current_state /\ self = "Clicking"
         THEN [self |-> "Done", is_active |-> click.is_active, event |-> "Select"]
         ELSE [self |-> self, is_active |-> click.is_active, event |-> "None"]
    ELSE IF self = "Clicking"
         THEN [self |-> "Done", is_active |-> click.is_active, event |-> "End"]
         ELSE [self |-> self, is_active |-> click.is_active, event |-> "None"]

\* update with the release arm emitting End
update_release_ends(self, click, menu_selected) ==
    IF click.is_active
    THEN IF self = "Clicking" /\ menu_selected
         THEN [self |-> "Done", is_active |-> click.is_active, event |-> "End"]
         ELSE IF click.current_state /\ self = "Done"
         THEN [self |-> "Clicking", is_active |-> click.is_active, event |-> "Start"]
         ELSE IF ~click.current_state /\ self = "Clicking"
         THEN [self |-> "Done", is_active |-> click.is_active, event |-> "End"]
         ELSE [self |-> self, is_active |-> click.is_active, event |-> "None"]
    ELSE IF self = "Clicking"
         THEN [self |-> "Done", is_active |-> click.is_active, event |-> "End"]
         ELSE [self |-> self, is_active |-> click.is_active, event |-> "None"]

\* ClickState::update, lines 42-66, given the answer `click` of the query of
\* line 40: the new value of *self, the is_active it returns and the event
update(self, click, menu_selected) ==
    IF click.is_active
    THEN IF self = "Clicking" /\ menu_selected
         THEN [self |-> "Done", is_active |-> click.is_active, event |-> "End"]
         ELSE IF click.current_state /\ self = "Done"
         THEN [self |-> "Clicking", is_active |-> click.is_active, event |-> "Start"]
         ELSE IF ~click.current_state /\ self = "Clicking"
         THEN [self |-> "Done", is_active |-> click.is_active, event |-> "Select"]
         ELSE [self |-> self, is_active |-> click.is_active, event |-> "None"]
    ELSE IF self = "Clicking"
         THEN [self |-> "Done", is_active |-> click.is_active, event |-> "End"]
         ELSE [self |-> self, is_active |-> click.is_active, event |-> "None"]

\* pose_for, lines 344-351: whether the located pose is returned (Some) or not
pose_for(location_flags) ==
    location_flags \cap {POSITION_VALID, ORIENTATION_VALID} # {}

\* lines 274-278
x_dir(hand) == IF hand = "Left" THEN 1 ELSE -1

\* the two tests of lines 290 and 293; axis_dot is gaze.dot(R * (1,0,0)) for
\* the grip rotation R, so that gaze.dot(grip_x) = x_dir * axis_dot
palm_aligned(hand, axis_dot) == x_dir(hand) * axis_dot > ALIGNMENT_COSINE
looking_at_palm(look_dot) == look_dot > ALIGNMENT_COSINE

\* self.menu_gesture_sustain += 1 on a u8 (wrapping, as in a release build)
increment(sustain) == (sustain + 1) % (U8_MAX + 1)

\* sustain_step comparing with >= instead of >
sustain_step_ge(sustain) ==
    LET n == increment(sustain)
    IN  IF n >= MENU_GESTURE_SUSTAIN_THRESHOLD
        THEN [menu_selected |-> TRUE, sustain |-> 0, counted |-> n]
        ELSE [menu_selected |-> FALSE, sustain |-> n, counted |-> n]

\* sustain_step without the reset of line 297
sustain_step_no_reset(sustain) ==
    LET n == increment(sustain)
    IN  IF n > MENU_GESTURE_SUSTAIN_THRESHOLD
        THEN [menu_selected |-> TRUE, sustain |-> n, counted |-> n]
        ELSE [menu_selected |-> FALSE, sustain |-> n, counted |-> n]

\* sustain_step testing against the threshold plus one
sustain_step_late(sustain) ==
    LET n == increment(sustain)
    IN  IF n > MENU_GESTURE_SUSTAIN_THRESHOLD + 1
        THEN [menu_selected |-> TRUE, sustain |-> 0, counted |-> n]
        ELSE [menu_selected |-> FALSE, sustain |-> n, counted |-> n]

\* lines 293-298: the gesture holds on this tick
sustain_step(sustain) ==
    LET n == increment(sustain)
    IN  IF n > MENU_GESTURE_SUSTAIN_THRESHOLD
        THEN [menu_selected |-> TRUE, sustain |-> 0, counted |-> n]
        ELSE [menu_selected |-> FALSE, sustain |-> n, counted |-> n]

\* lines 299-306: the gesture does not hold on this tick
sustain_reset(sustain) == [menu_selected |-> FALSE, sustain |-> 0, counted |-> 0]

\* menu_gesture without the resets of lines 300 and 303
menu_gesture_keeps_count(sustain, hand, grip_origin, axis_dot, look_dot) ==
    IF grip_origin
    THEN IF palm_aligned(hand, axis_dot) /\ looking_at_palm(look_dot)
         THEN sustain_step(sustain)
         ELSE [menu_selected |-> FALSE, sustain |-> sustain, counted |-> 0]
    ELSE sustain_reset(sustain)

\* menu_gesture without the reset of line 306
menu_gesture_absent_keeps_count(sustain, hand, grip_origin, axis_dot, look_dot) ==
    IF grip_origin
    THEN IF palm_aligned(hand, axis_dot)
         THEN IF looking_at_palm(look_dot)
              THEN sustain_step(sustain)
              ELSE sustain_reset(sustain)
         ELSE sustain_reset(sustain)
    ELSE [menu_selected |-> FALSE, sustain |-> sustain, counted |-> 0]

\* lines 267-307: menu_selected and the new menu_gesture_sustain
menu_gesture(sustain, hand, grip_origin, axis_dot, look_dot) ==
    IF grip_origin
    THEN IF palm_aligned(hand, axis_dot)
         THEN IF looking_at_palm(look_dot)
              THEN sustain_step(sustain)
              ELSE sustain_reset(sustain)
         ELSE sustain_reset(sustain)
    ELSE sustain_reset(sustain)

----------------------------------------------------------------------------
\* OpenXRInput::new, lines 148-160
NoFrame ==
    [returned |-> FALSE, target_ray_origin |-> FALSE, grip_origin |-> FALSE,
     pressed |-> FALSE, squeezed |-> FALSE,
     select |-> "None", squeeze |-> "None", menu_selected |-> FALSE]

\* what one button was given so far: only active answers with menu_selected
\* false (plain), the last current_state, and whether the last call ended a
\* held click for the menu gesture
NoPast == [plain |-> TRUE, level |-> FALSE, preempted |-> FALSE]

NoCall ==
    [button |-> "none", before |-> "Done", click |-> [is_active |-> FALSE, current_state |-> FALSE],
     menu_selected |-> FALSE, event |-> "None", was |-> NoPast]

\* the backend queries of one call of frame, in the order the code makes them:
\* lines 263 and 265 (locate, line 342), 309, 310, and line 40 in each update
Queries == <<"aim", "grip", "click309", "squeeze310", "click40", "squeeze40">>

position(query) == CHOOSE i \in 1..Len(Queries) : Queries[i] = query

\* Result::unwrap, lines 40, 309, 310 and 343: an Err panics, and the panic
\* unwinds out of frame
unwrap(failed) == IF failed THEN "panicked" ELSE "returned"

Init ==
    /\ handedness \in Handedness
    /\ click_state = "Done"
    /\ squeeze_state = "Done"
    /\ menu_gesture_sustain = 0
    /\ ret = NoFrame
    /\ ended = [how |-> "new", fault |-> "none"]
    /\ queried = [aim |-> <<>>, grip |-> <<>>, click |-> <<>>, squeeze |-> <<>>]
    /\ counted = 0
    /\ call = NoCall
    /\ since_start = [click |-> [starts |-> 0, ends |-> 0], squeeze |-> [starts |-> 0, ends |-> 0]]
    /\ past = [click |-> NoPast, squeeze |-> NoPast]
    /\ run = 0
    /\ origin = "new"

\* frame with click_is_active passed as the menu_selected of the second call
\* of update
frame_squeeze_gets_click_active(aim_flags, grip_flags, axis_dot, look_dot, click309, squeeze310, click40, squeeze40) ==
    LET target_ray_origin == pose_for(aim_flags)
        grip_origin == pose_for(grip_flags)
        gesture == menu_gesture(menu_gesture_sustain, handedness, grip_origin, axis_dot, look_dot)
        menu_selected == gesture.menu_selected
        c == update(click_state, click40, menu_selected)
        s == update(squeeze_state, squeeze40, c.is_active)
    IN  /\ ended.how # "panicked"
        /\ ended' = [how |-> unwrap(FALSE), fault |-> "none"]
        /\ menu_gesture_sustain' = gesture.sustain
        /\ counted' = gesture.counted
        /\ click_state' = c.self
        /\ squeeze_state' = s.self
        /\ queried' = [aim |-> <<aim_flags>>, grip |-> <<grip_flags>>,
                       click |-> <<click309, click40>>, squeeze |-> <<squeeze310, squeeze40>>]
        /\ ret' = [returned |-> TRUE,
                   target_ray_origin |-> target_ray_origin,
                   grip_origin |-> grip_origin,
                   pressed |-> c.is_active /\ click309.current_state,
                   squeezed |-> s.is_active /\ squeeze310.current_state,
                   select |-> c.event,
                   squeeze |-> s.event,
                   menu_selected |-> menu_selected]
        /\ UNCHANGED handedness

\* frame with the second call of update made on click_state as well
frame_squeeze_on_click_state(aim_flags, grip_flags, axis_dot, look_dot, click309, squeeze310, click40, squeeze40) ==
    LET target_ray_origin == pose_for(aim_flags)
        grip_origin == pose_for(grip_flags)
        gesture == menu_gesture(menu_gesture_sustain, handedness, grip_origin, axis_dot, look_dot)
        menu_selected == gesture.menu_selected
        c == update(click_state, click40, menu_selected)
        s == update(c.self, squeeze40, menu_selected)
    IN  /\ ended.how # "panicked"
        /\ ended' = [how |-> unwrap(FALSE), fault |-> "none"]
        /\ menu_gesture_sustain' = gesture.sustain
        /\ counted' = gesture.counted
        /\ click_state' = s.self
        /\ squeeze_state' = squeeze_state
        /\ queried' = [aim |-> <<aim_flags>>, grip |-> <<grip_flags>>,
                       click |-> <<click309, click40>>, squeeze |-> <<squeeze310, squeeze40>>]
        /\ ret' = [returned |-> TRUE,
                   target_ray_origin |-> target_ray_origin,
                   grip_origin |-> grip_origin,
                   pressed |-> c.is_active /\ click309.current_state,
                   squeezed |-> s.is_active /\ squeeze310.current_state,
                   select |-> c.event,
                   squeeze |-> s.event,
                   menu_selected |-> menu_selected]
        /\ UNCHANGED handedness

\* OpenXRInput::frame, lines 255-333.  aim_flags and grip_flags answer the two
\* locate calls of pose_for; click309 and squeeze310 answer the queries of
\* lines 309-310; click40 and squeeze40 answer the query of line 40 inside the
\* two calls of update.
frame(aim_flags, grip_flags, axis_dot, look_dot, click309, squeeze310, click40, squeeze40) ==
    LET target_ray_origin == pose_for(aim_flags)
        grip_origin == pose_for(grip_flags)
        gesture == menu_gesture(menu_gesture_sustain, handedness, grip_origin, axis_dot, look_dot)
        menu_selected == gesture.menu_selected
        c == update(click_state, click40, menu_selected)
        s == update(squeeze_state, squeeze40, menu_selected)
    IN  /\ ended.how # "panicked"
        /\ ended' = [how |-> unwrap(FALSE), fault |-> "none"]
        /\ menu_gesture_sustain' = gesture.sustain
        /\ counted' = gesture.counted
        /\ click_state' = c.self
        /\ squeeze_state' = s.self
        /\ queried' = [aim |-> <<aim_flags>>, grip |-> <<grip_flags>>,
                       click |-> <<click309, click40>>, squeeze |-> <<squeeze310, squeeze40>>]
        /\ ret' = [returned |-> TRUE,
                   target_ray_origin |-> target_ray_origin,
                   grip_origin |-> grip_origin,
                   pressed |-> c.is_active /\ click309.current_state,
                   squeezed |-> s.is_active /\ squeeze310.current_state,
                   select |-> c.event,
                   squeeze |-> s.event,
                   menu_selected |-> menu_selected]
        /\ UNCHANGED handedness

\* OpenXRInput::frame when the query `at` fails: the unwrap on its result
\* panics, so the code before that query has run, the code after it has not,
\* and no Frame is returned.  The gesture (lines 267-307) runs between the
\* queries of lines 265 and 309, the click state machine between the two
\* queries of line 40.
frame_fault(at, aim_flags, grip_flags, axis_dot, look_dot, click309, squeeze310, click40) ==
    LET reached == position(at)
        grip_origin == pose_for(grip_flags)
        gesture == menu_gesture(menu_gesture_sustain, handedness, grip_origin, axis_dot, look_dot)
        c == update(click_state, click40, gesture.menu_selected)
    IN  /\ ended.how # "panicked"
        /\ ended' = [how |-> unwrap(TRUE), fault |-> at]
        /\ menu_gesture_sustain' = IF reached > 2 THEN gesture.sustain ELSE menu_gesture_sustain
        /\ counted' = IF reached > 2 THEN gesture.counted ELSE 0
        /\ click_state' = IF reached > 5 THEN c.self ELSE click_state
        /\ squeeze_state' = squeeze_state
        /\ queried' = [aim |-> IF reached > 1 THEN <<aim_flags>> ELSE <<>>,
                       grip |-> IF reached > 2 THEN <<grip_flags>> ELSE <<>>,
                       click |-> IF reached > 5 THEN <<click309, click40>>
                                 ELSE IF reached > 3 THEN <<click309>> ELSE <<>>,
                       squeeze |-> IF reached > 4 THEN <<squeeze310>> ELSE <<>>]
        /\ ret' = NoFrame
        /\ UNCHANGED handedness

----------------------------------------------------------------------------
\* saturation of the history counters
MaxCount == 2

\* longest run of consecutive qualifying ticks the environment produces
MaxRun == 125

sat(n) == IF n >= MaxCount THEN MaxCount ELSE n + 1

\* history of one button's events: Starts so far, Select/End since the last Start
TrackStart(h, event) ==
    IF event = "Start" THEN [starts |-> sat(h.starts), ends |-> 0]
    ELSE IF event \in {"Select", "End"} THEN [starts |-> h.starts, ends |-> sat(h.ends)]
    ELSE h

\* history of what one button was given
TrackInput(h, click, menu_selected, event) ==
    [plain |-> h.plain /\ click.is_active /\ ~menu_selected,
     level |-> click.current_state,
     preempted |-> /\ event = "End" /\ menu_selected
                   /\ click.is_active /\ click.current_state]

\* the gesture condition of a tick, as the environment presents it
qualifies(hand, grip_flags, axis_dot, look_dot) ==
    /\ pose_for(grip_flags)
    /\ palm_aligned(hand, axis_dot)
    /\ looking_at_palm(look_dot)

----------------------------------------------------------------------------
\* A button left alone: the runtime reports it inactive
Idle == [is_active |-> FALSE, current_state |-> FALSE]

\* One frame call with idle buttons, every answer of the locate calls (the
\* same for the aim and the grip space) and every alignment input
GestureTick ==
    \E grip_flags \in SpaceLocationFlags, axis_dot \in AxisDots, look_dot \in LookDots :
        LET q == qualifies(handedness, grip_flags, axis_dot, look_dot)
        IN  /\ q => run < MaxRun
            /\ frame(grip_flags, grip_flags, axis_dot, look_dot, Idle, Idle, Idle, Idle)
            /\ run' = IF q THEN run + 1 ELSE 0
            /\ origin' = IF q THEN origin
                         ELSE IF ~pose_for(grip_flags)
                              THEN IF menu_gesture_sustain > 0 THEN "lost" ELSE "absent"
                         ELSE IF run \in 1..MENU_GESTURE_SUSTAIN_THRESHOLD THEN "broken"
                         ELSE "misaligned"
            /\ UNCHANGED <<call, since_start, past>>

SpecGesture == Init /\ [][GestureTick]_vars

\* One frame call, the hand either untracked or holding the gesture, and
\* every answer to the four button queries that the code can tell apart: of
\* the answers of lines 309-310 it reads current_state alone, so these are
\* drawn with is_active set
TrackedFlags == {{}, {POSITION_VALID, ORIENTATION_VALID}}
Levels == {a \in ActionState : a.is_active}

Tick ==
    \E grip_flags \in TrackedFlags,
       click309 \in Levels, squeeze310 \in Levels,
       click40 \in ActionState, squeeze40 \in ActionState :
        /\ frame(grip_flags, grip_flags, x_dir(handedness) * 96, 96,
                 click309, squeeze310, click40, squeeze40)
        /\ UNCHANGED <<call, since_start, past, run, origin>>

Spec == Init /\ [][Tick]_vars

\* One frame call in which a query fails; the answers of the queries made
\* before it are drawn as in Tick, those never asked for are not drawn
FaultTick ==
    \E at \in {Queries[i] : i \in 1..Len(Queries)}, grip_flags \in TrackedFlags,
       click309 \in Levels, squeeze310 \in Levels, click40 \in ActionState :
        /\ position(at) <= 2 => grip_flags = {}
        /\ position(at) <= 3 => click309.current_state
        /\ position(at) <= 4 => squeeze310.current_state
        /\ position(at) <= 5 => click40 = Idle
        /\ frame_fault(at, grip_flags, grip_flags, x_dir(handedness) * 96, 96,
                       click309, squeeze310, click40)
        /\ UNCHANGED <<call, since_start, past, run, origin>>

SpecFault == Init /\ [][Tick \/ FaultTick]_vars

\* One call of ClickState::update on one of the two buttons, every answer of
\* the query and either value of menu_selected
Update(button) ==
    \E click \in ActionState, menu_selected \in BOOLEAN :
        LET self == IF button = "click" THEN click_state ELSE squeeze_state
            r == update(self, click, menu_selected)
        IN  /\ click_state' = IF button = "click" THEN r.self ELSE click_state
            /\ squeeze_state' = IF button = "squeeze" THEN r.self ELSE squeeze_state
            /\ call' = [button |-> button, before |-> self, click |-> click,
                        menu_selected |-> menu_selected, event |-> r.event,
                        was |-> past[button]]
            /\ since_start' = [since_start EXCEPT ![button] = TrackStart(@, r.event)]
            /\ past' = [past EXCEPT ![button] = TrackInput(@, click, menu_selected, r.event)]
            /\ UNCHANGED <<handedness, menu_gesture_sustain, ret, ended, queried, counted,
                           run, origin>>

UpdateNext == Update("click") \/ Update("squeeze")

SpecUpdate == Init /\ [][UpdateNext]_vars

----------------------------------------------------------------------------
\* Properties of ClickState::update, checked under SpecUpdate

Called == call.button # "none"

\* the phase of the button of the last call, after that call
after == IF call.button = "click" THEN click_state ELSE squeeze_state

phase(button) == IF button = "click" THEN click_state ELSE squeeze_state

\* C1: whatever the phase, the answer and menu_selected, a call of update emits
\* Start only on Done -> Clicking, Select or End only on Clicking -> Done,
\* changes the phase only when it emits an event, and emits at most one event
C1_EventMatchesTransition ==
    Called =>
        /\ call.event \in SelectEvent
        /\ call.event = "Start" => call.before = "Done" /\ after = "Clicking"
        /\ call.event \in {"Select", "End"} => call.before = "Clicking" /\ after = "Done"
        /\ call.event = "None" => after = call.before

C1_Witness ==
    /\ Called /\ call.event = "Select"
    /\ call.before = "Clicking" /\ after = "Done"

\* C2: from phase Done, over any sequence of calls, a button's Start is never
\* emitted while its phase is Clicking, and a Start that follows an earlier
\* Start of that button comes after exactly one Select or End of it
C2_NoDoubleStart ==
    [][\A b \in {"click", "squeeze"} :
         (call'.button = b /\ call'.event = "Start") =>
             /\ phase(b) = "Done"
             /\ since_start[b].starts = 0 \/ since_start[b].ends = 1]_vars

C2_Witness ==
    /\ call.button = "click" /\ call.event = "Start"
    /\ since_start.click.starts = 2

\* C3: phase Clicking, is_active and menu_selected give End and phase Done,
\* whatever current_state is
C3_GesturePreempts ==
    (Called /\ call.before = "Clicking" /\ call.click.is_active /\ call.menu_selected) =>
        call.event = "End" /\ after = "Done"

C3_Witness ==
    /\ Called /\ call.before = "Clicking" /\ call.click.is_active /\ call.menu_selected
    /\ ~call.click.current_state
    /\ call.event = "End"

\* C4: with is_active false, phase Clicking gives End and phase Done, phase
\* Done gives no event and stays Done, whatever current_state and
\* menu_selected are
C4_TrackingLossEnds ==
    (Called /\ ~call.click.is_active) =>
        /\ call.before = "Clicking" => call.event = "End" /\ after = "Done"
        /\ call.before = "Done" => call.event = "None" /\ after = "Done"

C4_Witness ==
    /\ Called /\ ~call.click.is_active /\ call.before = "Clicking"
    /\ call.click.current_state /\ call.menu_selected
    /\ call.event = "End" /\ after = "Done"

\* C5: phase Done, is_active, current_state and menu_selected give no event and
\* leave the phase Done
C5_NoStartUnderMenu ==
    (Called /\ call.before = "Done" /\ call.click.is_active
            /\ call.click.current_state /\ call.menu_selected) =>
        call.event = "None" /\ after = "Done"

----------------------------------------------------------------------------
\* Properties of OpenXRInput::frame, checked under Spec

\* the answer that drove the state machine of a button: the one update got
driving(answers) == answers[Len(answers)]

\* C6: pressed (squeezed) of the returned Frame equals is_active &&
\* current_state of the answer that drove the click (squeeze) state machine
C6_PressedFromDrivingSample ==
    ret.returned =>
        /\ ret.pressed = (driving(queried.click).is_active
                            /\ driving(queried.click).current_state)
        /\ ret.squeezed = (driving(queried.squeeze).is_active
                            /\ driving(queried.squeeze).current_state)

\* C7: one call of frame queries the state of the click button once and the
\* state of the squeeze button once
C7_OneQueryPerButton ==
    ret.returned => Len(queried.click) = 1 /\ Len(queried.squeeze) = 1

----------------------------------------------------------------------------
\* Properties of the menu gesture, checked under SpecGesture

Trigger == MENU_GESTURE_SUSTAIN_THRESHOLD + 1

\* C8: from counter 0, the first 60 consecutive qualifying ticks report
\* menu_selected = false and the 61st reports menu_selected = true
C8_SustainBoundary ==
    /\ run \in 1..MENU_GESTURE_SUSTAIN_THRESHOLD => ~ret.menu_selected
    /\ run = Trigger => ret.menu_selected

C8_Witness == run = Trigger /\ ret.menu_selected /\ origin = "new"

\* C9: the tick that reports menu_selected = true leaves the counter at 0, and
\* in an unbroken run of qualifying ticks menu_selected = true is reported on
\* the ticks 61, 122, ... and on no other
C9_OneShot ==
    /\ ret.menu_selected => menu_gesture_sustain = 0
    /\ run > 0 => (ret.menu_selected <=> run % Trigger = 0)

C9_Witness == run = 2 * Trigger /\ ret.menu_selected /\ menu_gesture_sustain = 0

\* C10: after 1..60 qualifying ticks, a tick with the grip tracked and an
\* alignment test failing leaves the counter at 0 and reports false, and the
\* qualifying ticks that follow count from 1 and trigger on the 61st
C10_ResetOnDisqualification ==
    origin = "broken" =>
        /\ run = 0 => menu_gesture_sustain = 0 /\ ~ret.menu_selected
        /\ run \in 1..MENU_GESTURE_SUSTAIN_THRESHOLD =>
               menu_gesture_sustain = run /\ ~ret.menu_selected
        /\ run = Trigger => ret.menu_selected

C10_Witness == origin = "broken" /\ run = Trigger /\ ret.menu_selected

\* C11: a tick whose grip pose is absent reports menu_selected = false and
\* leaves the counter at 0, whatever the counter was before and however many
\* such ticks follow one another
C11_AbsentGripResets ==
    (ret.returned /\ ~ret.grip_origin) =>
        ~ret.menu_selected /\ menu_gesture_sustain = 0

C11_Witness ==
    /\ ret.returned /\ ~ret.grip_origin /\ origin = "lost"
    /\ menu_gesture_sustain = 0 /\ ~ret.menu_selected

\* C12: pose_for returns Some exactly when the location flags hold both
\* POSITION_VALID and ORIENTATION_VALID
C12_PoseNeedsBothFlags ==
    ret.returned =>
        /\ ret.grip_origin <=> queried.grip[1] = {POSITION_VALID, ORIENTATION_VALID}
        /\ ret.target_ray_origin <=> queried.aim[1] = {POSITION_VALID, ORIENTATION_VALID}

\* C14: the counter never overflows: after every tick it is in 0..60, and the
\* value the increment of line 294 leaves before the threshold test is at
\* most 61
C14_SustainInRange ==
    /\ menu_gesture_sustain \in 0..MENU_GESTURE_SUSTAIN_THRESHOLD
    /\ counted \in 0..Trigger
    /\ counted <= U8_MAX

C14_Witness == counted = Trigger /\ menu_gesture_sustain = 0 /\ run = Trigger

----------------------------------------------------------------------------
\* Properties of a frame call in which a query fails, checked under SpecFault

\* C13: when a pose query or a button-state query fails, frame hands its
\* caller a TrackingQueryError and produces no Frame
C13_FaultIsReturned ==
    ended.fault # "none" => ended.how = "TrackingQueryError" /\ ~ret.returned

\* C20: a frame call that a failed query aborts leaves click_state,
\* squeeze_state and menu_gesture_sustain as they were before the call
C20_AbortedTickChangesNothing ==
    [][ended'.fault # "none" =>
           /\ click_state' = click_state
           /\ squeeze_state' = squeeze_state
           /\ menu_gesture_sustain' = menu_gesture_sustain]_vars

----------------------------------------------------------------------------
\* Sequences of calls of ClickState::update, checked under SpecUpdate

\* C15: after a call that ended a held click for the menu gesture (End, phase
\* Done), the next call of that button with is_active, current_state and
\* menu_selected = false emits Start and moves the phase to Clicking
C15_FreshStartAfterPreemption ==
    (Called /\ call.was.preempted /\ call.click.is_active
            /\ call.click.current_state /\ ~call.menu_selected) =>
        call.event = "Start" /\ call.before = "Done" /\ after = "Clicking"

C15_Witness ==
    /\ Called /\ call.was.preempted /\ call.click.is_active
    /\ call.click.current_state /\ ~call.menu_selected
    /\ call.event = "Start" /\ after = "Clicking"

\* the event of a button that was only ever given active answers with
\* menu_selected = false: a press begins, a press is released, or nothing
edge(level_before, level) ==
    IF ~level_before /\ level THEN "Start"
    ELSE IF level_before /\ ~level THEN "Select"
    ELSE "None"

\* C16: a button that stays active with menu_selected = false, from phase
\* Done: released ticks emit nothing, the first pressed tick emits Start,
\* further pressed ticks emit nothing, the first released tick after them
\* emits Select and leaves the phase Done
C16_PressReleaseCycle ==
    (Called /\ call.was.plain /\ call.click.is_active /\ ~call.menu_selected) =>
        /\ call.event = edge(call.was.level, call.click.current_state)
        /\ after = IF call.click.current_state THEN "Clicking" ELSE "Done"

C16_Witness ==
    /\ Called /\ call.was.plain /\ call.click.is_active /\ ~call.menu_selected
    /\ call.was.level /\ ~call.click.current_state
    /\ call.event = "Select" /\ after = "Done"
    /\ since_start[call.button].starts = 1

----------------------------------------------------------------------------
\* Properties of the wiring of OpenXRInput::frame, checked under Spec

\* C17: in one call of frame the gesture, counter update included, is
\* computed before the buttons, and both state machines get the
\* menu_selected that the Frame reports: a button that is Clicking and active
\* emits End exactly when the Frame reports menu_selected
C17_GestureBeforeButtons ==
    [][ret'.returned =>
           /\ ret'.menu_selected <=> counted' = Trigger
           /\ ret'.menu_selected => menu_gesture_sustain' = 0
           /\ (click_state = "Clicking" /\ driving(queried'.click).is_active) =>
                  (ret'.select = "End" <=> ret'.menu_selected)
           /\ (squeeze_state = "Clicking" /\ driving(queried'.squeeze).is_active) =>
                  (ret'.squeeze = "End" <=> ret'.menu_selected)]_vars

C17_Witness ==
    /\ ret.returned /\ ret.menu_selected
    /\ driving(queried.click).is_active /\ driving(queried.squeeze).is_active
    /\ ret.select = "End" /\ ret.squeeze = "End"
    /\ click_state = "Done" /\ squeeze_state = "Done"

\* C18: the phase and event of each button after a tick are those its own
\* phase before the tick, its own answer and menu_selected give, whatever
\* the other button does, and the counter after the tick is the one the
\* gesture left
C18_ButtonsIndependent ==
    [][ret'.returned =>
           LET c == update(click_state, driving(queried'.click), ret'.menu_selected)
               s == update(squeeze_state, driving(queried'.squeeze), ret'.menu_selected)
           IN  /\ click_state' = c.self /\ ret'.select = c.event
               /\ squeeze_state' = s.self /\ ret'.squeeze = s.event
               /\ menu_gesture_sustain' = IF ret'.menu_selected THEN 0 ELSE counted']_vars

C18_Witness ==
    /\ ret.returned /\ ~ret.menu_selected
    /\ ret.select = "Start" /\ click_state = "Clicking"
    /\ ret.squeeze = "End" /\ squeeze_state = "Done"
    /\ menu_gesture_sustain > 0

\* C19: in every returned Frame the flag agrees with the event of its button:
\* Start comes with pressed, Select with not pressed, and a phase left at
\* Clicking with pressed (squeeze and squeezed alike)
C19_FlagAgreesWithEvent ==
    ret.returned =>
        /\ ret.select = "Start" => ret.pressed
        /\ ret.select = "Select" => ~ret.pressed
        /\ click_state = "Clicking" => ret.pressed
        /\ ret.squeeze = "Start" => ret.squeezed
        /\ ret.squeeze = "Select" => ~ret.squeezed
        /\ squeeze_state = "Clicking" => ret.squeezed

====
